---- MODULE Spec2Model ----
(***************************************************************************)
(* A model of alnvu/util.py: the alignment reformatting engine             *)
(* (get_seq_from_list, get_extent, reformat, pagify, tabulate, consensus,  *)
(* count_subs, seqdiff, get_vnumbers).                                     *)
(*                                                                         *)
(* Python strings are modelled as sequences of one-character strings, a    *)
(* dict as a function whose DOMAIN is the set of keys, a raised exception  *)
(* as a result record whose status names the exception.                    *)
(***************************************************************************)
EXTENDS Integers, Sequences, FiniteSets, TLC

VARIABLES pc, args, ret, out, start, first, counter

vars == <<pc, args, ret, out, start, first, counter>>

(***************************************************************************)
(* Bounds of the model.                                                    *)
(***************************************************************************)
MaxCount == 3
MaxPlu == 3

(***************************************************************************)
(* Characters.                                                             *)
(***************************************************************************)
Gap == "-"
ErrorChar == "X"
Digits == <<"0", "1", "2", "3", "4", "5", "6", "7", "8", "9">>
UpperCase == {"A", "C", "G", "T", "X"}
LowerCase == {"a", "c", "g", "t", "x"}

\* str.upper() on one character
Upper(c) ==
  CASE c = "a" -> "A" [] c = "c" -> "C" [] c = "g" -> "G" [] c = "t" -> "T"
    [] c = "x" -> "X" [] OTHER -> c

\* str.lower() on one character
Lower(c) ==
  CASE c = "A" -> "a" [] c = "C" -> "c" [] c = "G" -> "g" [] c = "T" -> "t"
    [] c = "X" -> "x" [] OTHER -> c

UpperStr(s) == [i \in 1..Len(s) |-> Upper(s[i])]
LowerStr(s) == [i \in 1..Len(s) |-> Lower(s[i])]

\* the regular expression class [a-z] under re.I
IsLetter(c) == c \in UpperCase \cup LowerCase

Min(a, b) == IF a <= b THEN a ELSE b
Max(a, b) == IF a >= b THEN a ELSE b
SetMax(S) == CHOOSE x \in S : \A y \in S : y <= x

\* s[lo:hi] for 0 <= lo, hi (a Python slice, 0-based, half-open)
Slice(s, lo, hi) == SubSeq(s, lo + 1, Min(hi, Len(s)))

(***************************************************************************)
(* tabulate, consensus, count_subs                                         *)
(***************************************************************************)
\* dict without key k (del tabdict[k], a KeyError being passed over)
DelKey(tabdict, k) == [c \in DOMAIN tabdict \ {k} |-> tabdict[c]]

\* sorted(tabdict.values()) followed by reverse(): largest value first;
\* place j holds the largest value that at least j keys reach
ValsDesc(tabdict) ==
  [j \in 1..Cardinality(DOMAIN tabdict) |->
     SetMax({tabdict[k] : k \in
               {c \in DOMAIN tabdict :
                  Cardinality({e \in DOMAIN tabdict : tabdict[e] >= tabdict[c]}) >= j}})]

consensus_tie_inclusive(tabdict, countGaps, plu, gap, errorchar) ==
  LET t == IF countGaps THEN tabdict ELSE DelKey(tabdict, gap)
      vals == ValsDesc(t)
  IN IF ~countGaps /\ Cardinality(DOMAIN t) = 0 THEN errorchar
     ELSE IF Cardinality(DOMAIN t) = 1 THEN CHOOSE k \in DOMAIN t : TRUE
     ELSE IF vals[1] - vals[2] <= plu THEN errorchar
     ELSE CHOOSE k \in DOMAIN t : t[k] = vals[1]

\* consensus(tabdict, countGaps, plu, gap, errorchar).  rdict maps a count
\* back to a character; rdict[majority] is read only when majority exceeds
\* the second count by plu >= 1, when a single character holds it.
consensus(tabdict, countGaps, plu, gap, errorchar) ==
  LET t == IF countGaps THEN tabdict ELSE DelKey(tabdict, gap)
      vals == ValsDesc(t)
      majority == vals[1]
      second == vals[2]
  IN IF ~countGaps /\ Cardinality(DOMAIN t) = 0 THEN errorchar
     ELSE IF Cardinality(DOMAIN t) = 1 THEN CHOOSE k \in DOMAIN t : TRUE
     ELSE IF majority - second < plu THEN errorchar
     ELSE CHOOSE k \in DOMAIN t : t[k] = majority

RECURSIVE SumVals(_)
SumVals(vals) == IF vals = <<>> THEN 0 ELSE Head(vals) + SumVals(Tail(vals))

count_subs_gaps_counted(tabdict, countGaps, gap) ==
  LET vals == ValsDesc(tabdict)
  IN IF Cardinality(DOMAIN tabdict) <= 1 THEN 0
     ELSE SumVals(vals) - vals[1]

\* count_subs(tabdict, countGaps, gap)
count_subs(tabdict, countGaps, gap) ==
  LET t == IF countGaps THEN tabdict ELSE DelKey(tabdict, gap)
      vals == ValsDesc(t)
      total == SumVals(vals)
      majority_char_count == vals[1]
  IN IF Cardinality(DOMAIN t) <= 1 THEN 0
     ELSE total - majority_char_count

\* tabulate(seqList): one dict per column, shorter records padded with gaps
tabulate(seqList) ==
  LET maxLength == SetMax({Len(seqList[r].seq) : r \in 1..Len(seqList)})
      padded(r) == [i \in 1..maxLength |->
                      IF i <= Len(seqList[r].seq) THEN seqList[r].seq[i]
                      ELSE Gap]
  IN [i \in 1..maxLength |->
        [c \in {padded(r)[i] : r \in 1..Len(seqList)} |->
           Cardinality({r \in 1..Len(seqList) : padded(r)[i] = c})]]

(***************************************************************************)
(* Calls of consensus on a column frequency table.                         *)
(***************************************************************************)
TableChars == {"A", "C", "G", Gap}

\* the tables tabulate can build: at least one key, every count positive
Tables ==
  UNION {[K -> 1..MaxCount] : K \in SUBSET TableChars \ {{}}}

InitConsensus ==
  /\ pc = "ready"
  /\ args \in [fn : {"consensus"}, tabdict : Tables, countGaps : BOOLEAN,
               plu : 1..MaxPlu]
  /\ ret = "none"
  /\ out = <<>> /\ start = 0 /\ first = 0 /\ counter = 0

Consensus ==
  /\ pc = "ready" /\ args.fn = "consensus"
  /\ ret' = consensus(args.tabdict, args.countGaps, args.plu, Gap, ErrorChar)
  /\ pc' = "done"
  /\ UNCHANGED <<args, out, start, first, counter>>

NextConsensus == Consensus

SpecConsensus == InitConsensus /\ [][NextConsensus]_vars

\* C2: consensus returns the error character when gaps are not counted and
\* nothing but gaps is present; the sole remaining character when exactly
\* one is left; otherwise the error character when the highest count exceeds
\* the second-highest by less than the tie margin, and else the character
\* holding the highest count.
ConsensusRule ==
  (pc = "done" /\ args.fn = "consensus") =>
    LET t == args.tabdict
        keys == IF args.countGaps THEN DOMAIN t ELSE DOMAIN t \ {Gap}
        highest == SetMax({t[k] : k \in keys})
        holders == {k \in keys : t[k] = highest}
        secondHighest == IF Cardinality(holders) >= 2 THEN highest
                         ELSE SetMax({t[k] : k \in keys \ holders})
    IN IF keys = {} THEN ret = ErrorChar
       ELSE IF Cardinality(keys) = 1 THEN keys = {ret}
       ELSE IF highest - secondHighest < args.plu THEN ret = ErrorChar
       ELSE holders = {ret}

\* a call that returned the majority character of a table with two
\* characters left, the margin being met exactly
ConsensusMajorityReturned ==
  /\ pc = "done" /\ args.fn = "consensus"
  /\ args.tabdict = [c \in {"A", "G"} |-> IF c = "A" THEN 3 ELSE 1]
  /\ args.plu = 2
  /\ ret = "A"

(***************************************************************************)
(* get_seq_from_list                                                       *)
(***************************************************************************)
MaxRecords == 3
MaxSelLen == 2

IsDigit(c) == \E d \in 1..10 : Digits[d] = c
DigitVal(c) == (CHOOSE d \in 1..10 : Digits[d] = c) - 1

RECURSIVE StripLeft(_)
StripLeft(s) == IF s # <<>> /\ Head(s) = " " THEN StripLeft(Tail(s)) ELSE s

RECURSIVE StripRight(_)
StripRight(s) ==
  IF s # <<>> /\ s[Len(s)] = " " THEN StripRight(SubSeq(s, 1, Len(s) - 1))
  ELSE s

RECURSIVE DigitsValue(_)
DigitsValue(ds) ==
  IF ds = <<>> THEN 0
  ELSE 10 * DigitsValue(SubSeq(ds, 1, Len(ds) - 1)) + DigitVal(ds[Len(ds)])

\* the digits ds, negated if the sign is "-"; anything but one digit or
\* more is a ValueError
IntOfDigits(sign, ds) ==
  IF ds # <<>> /\ \A i \in 1..Len(ds) : IsDigit(ds[i])
    THEN [ok |-> TRUE,
          val |-> IF sign = "-" THEN 0 - DigitsValue(ds) ELSE DigitsValue(ds)]
    ELSE [ok |-> FALSE, val |-> 0]

IntOfStripped(t) ==
  IF t # <<>> /\ t[1] \in {"-", "+"} THEN IntOfDigits(t[1], Tail(t))
  ELSE IntOfDigits("+", t)

\* int(s) of a string: surrounding blanks, an optional sign, decimal digits
IntParse(s) == IntOfStripped(StripRight(StripLeft(s)))

\* seqlist[ix] for a Python index ix: the 1-based place, or 0 for IndexError
PyIndex(seqlist, ix) ==
  IF 0 <= ix /\ ix < Len(seqlist) THEN ix + 1
  ELSE IF ix < 0 /\ 0 - ix <= Len(seqlist) THEN Len(seqlist) + ix + 1
  ELSE 0

\* lines 31-39: the place compare_to names as an index, or 0 when int()
\* raises ValueError or the index raises IndexError
IndexLookup(seqlist, n) ==
  IF ~n.ok THEN 0
  ELSE IF n.val > 0 THEN PyIndex(seqlist, n.val - 1)
  ELSE PyIndex(seqlist, n.val)

\* compare_to in name
Contains(sub, name) ==
  \E off \in 0..(Len(name) - Len(sub)) :
     SubSeq(name, off + 1, off + Len(sub)) = sub

NameLookup_first_match(seqlist, matches) ==
  IF matches # {}
    THEN [status |-> "ok", ix |-> CHOOSE i \in matches : \A j \in matches : i <= j]
    ELSE [status |-> "ValueError", ix |-> 0]

\* lines 44-50: the single match, or the ValueError
NameLookup(seqlist, matches) ==
  IF Cardinality(matches) = 1
    THEN [status |-> "ok", ix |-> CHOOSE i \in matches : TRUE]
    ELSE [status |-> "ValueError", ix |-> 0]

\* lines 38-50: the item at the index found, or else looked up by name
IndexOrName(compare_to, seqlist, at) ==
  IF at # 0 THEN [status |-> "ok", ix |-> at]
  ELSE NameLookup(seqlist,
                  {i \in 1..Len(seqlist) : Contains(compare_to, seqlist[i].name)})

\* get_seq_from_list(compare_to, seqlist): the place in seqlist (1-based)
\* of the item returned, or the exception raised
get_seq_from_list(compare_to, seqlist) ==
  IndexOrName(compare_to, seqlist, IndexLookup(seqlist, IntParse(compare_to)))

SelChars == {"0", "1", "2", "-", "a", "b"}

StringsUpTo(chars, n) == UNION {[1..k -> chars] : k \in 1..n}

Selectors == StringsUpTo(SelChars, MaxSelLen)

NamePool == {<<"a">>, <<"b">>, <<"a", "b">>, <<"2">>}

NamedLists ==
  UNION {[1..k -> [name : NamePool, seq : {<<>>}]] : k \in 0..MaxRecords}

InitGetSeq ==
  /\ pc = "ready"
  /\ args \in [fn : {"get_seq_from_list"}, compare_to : Selectors,
               seqlist : NamedLists]
  /\ ret = "none"
  /\ out = <<>> /\ start = 0 /\ first = 0 /\ counter = 0

GetSeqFromList ==
  /\ pc = "ready" /\ args.fn = "get_seq_from_list"
  /\ ret' = get_seq_from_list(args.compare_to, args.seqlist)
  /\ pc' = "done"
  /\ UNCHANGED <<args, out, start, first, counter>>

NextGetSeq == GetSeqFromList

SpecGetSeq == InitGetSeq /\ [][NextGetSeq]_vars

\* the selector read as an integer, when it is one
SelectorInt == IntParse(args.compare_to)

\* the integer selector names a place of the list: 1..len from the start,
\* -len..0 from the end
SelectorIsValidIndex ==
  /\ SelectorInt.ok
  /\ Len(args.seqlist) >= 1
  /\ 0 - Len(args.seqlist) <= SelectorInt.val
  /\ SelectorInt.val <= Len(args.seqlist)

\* C3: an integer selector k valid for the list resolves by index: k > 0
\* returns records[k-1]; k <= 0 is counted from the end, negative k as
\* Python's records[k] and "0" returning the last record records[-1].
IndexSelectorResolution ==
  (pc = "done" /\ args.fn = "get_seq_from_list" /\ SelectorIsValidIndex) =>
    /\ ret.status = "ok"
    /\ ret.ix = IF SelectorInt.val > 0 THEN SelectorInt.val
                ELSE IF SelectorInt.val = 0 THEN Len(args.seqlist)
                ELSE Len(args.seqlist) + SelectorInt.val + 1

\* C4: a selector that is no valid index returns the one record whose name
\* contains it, and fails when no name or more than one name contains it.
SubstringSelectorResolution ==
  (pc = "done" /\ args.fn = "get_seq_from_list" /\ ~SelectorIsValidIndex) =>
    LET sel == args.compare_to
        holds(i) ==
          \E a, b \in 0..Len(args.seqlist[i].name) :
             /\ a + Len(sel) = b
             /\ \A j \in 1..Len(sel) : args.seqlist[i].name[a + j] = sel[j]
        containing == {i \in 1..Len(args.seqlist) : holds(i)}
    IN IF Cardinality(containing) = 1
         THEN ret.status = "ok" /\ ret.ix \in containing
         ELSE ret.status = "ValueError"

\* a numeric selector out of range resolved by the one name containing it,
\* beside names that do not
SubstringSelectorMatched ==
  /\ pc = "done" /\ args.fn = "get_seq_from_list"
  /\ args.compare_to = <<"2">>
  /\ Len(args.seqlist) = 1
  /\ args.seqlist[1].name = <<"2">>
  /\ ret = [status |-> "ok", ix |-> 1]

(***************************************************************************)
(* seqdiff                                                                 *)
(***************************************************************************)
MaxDiffLen == 3

seqdiff_gaps_marked(seq, templateseq, simchar) ==
  LET n == Min(Len(seq), Len(templateseq))
  IN IF simchar # <<>> /\ Len(simchar) > 1
       THEN [status |-> "ValueError", str |-> <<>>]
     ELSE IF simchar # <<>>
       THEN LET diff(s, t) == IF s = t THEN simchar[1] ELSE s
            IN [status |-> "ok",
                str |-> [i \in 1..n |-> diff(Upper(seq[i]), Upper(templateseq[i]))]]
     ELSE LET diff(s, t) == IF s = t THEN Upper(s) ELSE s
          IN [status |-> "ok",
              str |-> [i \in 1..n |-> diff(Lower(seq[i]), Lower(templateseq[i]))]]

\* seqdiff(seq, templateseq, simchar): the string returned (as long as the
\* shorter argument, zip stopping there), or the ValueError raised
seqdiff(seq, templateseq, simchar) ==
  LET n == Min(Len(seq), Len(templateseq))
  IN IF simchar # <<>> /\ Len(simchar) > 1
       THEN [status |-> "ValueError", str |-> <<>>]
     ELSE IF simchar # <<>>
       THEN LET seqstr == UpperStr(seq)
                templatestr == UpperStr(templateseq)
                diff(s, t) == IF s = t /\ s # "-" THEN simchar[1] ELSE s
            IN [status |-> "ok",
                str |-> [i \in 1..n |-> diff(seqstr[i], templatestr[i])]]
     ELSE LET seqstr == LowerStr(seq)
              templatestr == LowerStr(templateseq)
              diff(s, t) == IF s = t THEN Upper(s) ELSE s
          IN [status |-> "ok",
              str |-> [i \in 1..n |-> diff(seqstr[i], templatestr[i])]]

DiffChars == {"A", "a", "G", Gap}

DiffStrings == UNION {[1..k -> DiffChars] : k \in 0..MaxDiffLen}

SimChars == {<<>>, <<".">>, <<".", ".">>}

InitSeqdiff ==
  /\ pc = "ready"
  /\ args \in [fn : {"seqdiff"}, seq : DiffStrings, templateseq : DiffStrings,
               simchar : SimChars]
  /\ ret = "none"
  /\ out = <<>> /\ start = 0 /\ first = 0 /\ counter = 0

Seqdiff ==
  /\ pc = "ready" /\ args.fn = "seqdiff"
  /\ ret' = seqdiff(args.seq, args.templateseq, args.simchar)
  /\ pc' = "done"
  /\ UNCHANGED <<args, out, start, first, counter>>

NextSeqdiff == Seqdiff

SpecSeqdiff == InitSeqdiff /\ [][NextSeqdiff]_vars

\* C5: with a one-character simchar the result is as long as the shorter
\* of record and reference, holds simchar where the uppercased characters
\* agree on a non-gap and the uppercased record character elsewhere (so a
\* record diffed against itself turns every non-gap into simchar and keeps
\* every gap); a simchar of more than one character is a ValueError.
SeqdiffRule ==
  (pc = "done" /\ args.fn = "seqdiff") =>
    /\ Len(args.simchar) > 1 => ret.status = "ValueError"
    /\ Len(args.simchar) = 1 =>
         /\ ret.status = "ok"
         /\ Len(ret.str) <= Len(args.seq)
         /\ Len(ret.str) <= Len(args.templateseq)
         /\ Len(ret.str) \in {Len(args.seq), Len(args.templateseq)}
         /\ \A i \in 1..Len(ret.str) :
              LET same == /\ Upper(args.seq[i]) = Upper(args.templateseq[i])
                          /\ args.seq[i] # Gap
              IN /\ same => ret.str[i] = args.simchar[1]
                 /\ ~same => ret.str[i] = Upper(args.seq[i])
                 /\ ret.str[i] = args.simchar[1] <=> same
         /\ args.templateseq = args.seq =>
              \A i \in 1..Len(args.seq) :
                 ret.str[i] = IF args.seq[i] = Gap THEN Gap ELSE args.simchar[1]

\* a record with a gap, a lowercase and an uppercase character diffed
\* against itself
SeqdiffAgainstSelf ==
  /\ pc = "done" /\ args.fn = "seqdiff"
  /\ args.seq = <<"a", Gap, "G">>
  /\ args.templateseq = args.seq
  /\ args.simchar = <<".">>
  /\ ret = [status |-> "ok", str |-> <<".", Gap, ".">>]

(***************************************************************************)
(* get_extent, get_vnumbers                                                *)
(***************************************************************************)
\* get_extent(seqstr): (start, stop), 0-based and half-open; re.search
\* returns None on a string without a letter and .start() then raises
get_extent(seqstr) ==
  LET letters == {i \in 1..Len(seqstr) : IsLetter(seqstr[i])}
  IN IF letters = {} THEN [status |-> "AttributeError", start |-> 0, stop |-> 0]
     ELSE [status |-> "ok",
           start |-> (CHOOSE i \in letters : \A j \in letters : i <= j) - 1,
           stop |-> CHOOSE i \in letters : \A j \in letters : j <= i]

\* repr(n) of a natural number
RECURSIVE Dec(_)
Dec(n) ==
  IF n < 10 THEN <<Digits[n + 1]>>
  ELSE Dec(n \div 10) \o <<Digits[(n % 10) + 1]>>

\* s right-justified in a field of `width` filled with `fill` ('%5s', '%05i')
RJust(s, width, fill) ==
  [i \in 1..(Max(width, Len(s)) - Len(s)) |-> fill] \o s

\* s left-justified in a field of `width` ('%-5s')
LJust(s, width) ==
  s \o [i \in 1..(Max(width, Len(s)) - Len(s)) |-> " "]

get_vnumbers_from_zero(seqstr, ignore_gaps, leadingZeros) ==
  LET digs == Len(Dec(Len(seqstr) + 1))
      numchars(p) == RJust(Dec(p - 1), digs, "0")
  IN [n \in 1..digs |-> [p \in 1..Len(seqstr) |-> numchars(p)[n]]]

\* get_vnumbers(seqstr, ignore_gaps, leadingZeros): digs strings, string n
\* holding digit n of every column's number
get_vnumbers(seqstr, ignore_gaps, leadingZeros) ==
  LET seqlen == Len(seqstr)
      digs == Len(Dec(seqlen + 1))
      gapstr == [n \in 1..digs |-> "-"]
      fmt(i) == RJust(Dec(i), digs, IF leadingZeros THEN "0" ELSE " ")
      skipped(p) == ~ignore_gaps /\ seqstr[p] = "-"
      \* the value of the counter i when column p is reached
      number(p) == 1 + Cardinality({q \in 1..(p - 1) : ~skipped(q)})
      numchars(p) == IF skipped(p) THEN gapstr ELSE fmt(number(p))
  IN [n \in 1..digs |-> [p \in 1..seqlen |-> numchars(p)[n]]]

(***************************************************************************)
(* reformat                                                                *)
(***************************************************************************)
\* an optional argument: None, or a value
None == <<>>
Some(x) == <<x>>

DefaultPlu == 2
ConsensusName == <<"C", "O", "N", "S", "E", "N", "S", "U", "S">>
RefPrefix == <<"=", "=", "R", "E", "F", "=", "=", ">", " ">>

Seqobj(name, seq) == [name |-> name, seq |-> seq, reference |-> FALSE]

\* ''.join(c for c, m in zip(instr, mask) if m), from place i on
RECURSIVE MaskedFrom(_, _, _)
MaskedFrom(instr, mask, i) ==
  IF i > Len(instr) \/ i > Len(mask) THEN <<>>
  ELSE (IF mask[i] THEN <<instr[i]>> ELSE <<>>) \o MaskedFrom(instr, mask, i + 1)

\* apply_mask(instr): the characters of instr at the true places of mask
apply_mask(instr, mask) == MaskedFrom(instr, mask, 1)

\* lines 130-135: every item bearing the reference's name is renamed and
\* flagged, every other item is diffed against the reference's characters
CompareWith(a, seqlist, compare_to_name, compare_to_str) ==
  IF \E r \in 1..Len(seqlist) :
        /\ seqlist[r].name # compare_to_name
        /\ seqdiff(seqlist[r].seq, compare_to_str, a.simchar).status # "ok"
    THEN [status |-> "ValueError", seqlist |-> <<>>]
    ELSE [status |-> "ok",
          seqlist |->
            [r \in 1..Len(seqlist) |->
               IF seqlist[r].name = compare_to_name
                 THEN [name |-> RefPrefix \o seqlist[r].name,
                       seq |-> seqlist[r].seq, reference |-> TRUE]
                 ELSE [seqlist[r] EXCEPT
                         !.seq = seqdiff(seqlist[r].seq, compare_to_str,
                                         a.simchar).str]]]

\* lines 127-128: the reference is the item get_seq_from_list found
CompareFound(a, seqlist, found) ==
  IF found.status # "ok" THEN [status |-> found.status, seqlist |-> <<>>]
  ELSE CompareWith(a, seqlist, seqlist[found.ix].name, seqlist[found.ix].seq)

\* lines 120-135
CompareStage(a, seqlist, consensus_str) ==
  IF ~a.compare THEN [status |-> "ok", seqlist |-> seqlist]
  ELSE IF a.compare_to = None
    THEN CompareWith(a, seqlist, ConsensusName, consensus_str)
  ELSE CompareFound(a, seqlist, get_seq_from_list(a.compare_to[1], seqlist))

\* line 145: the columns within the extent
ExtentMask(ii, extent) ==
  IF extent.status # "ok" THEN [status |-> extent.status, mask |-> <<>>]
  ELSE [status |-> "ok",
        mask |-> [i \in ii |-> extent.start <= i - 1 /\ i - 1 < extent.stop]]

\* line 144: the extent of the item get_seq_from_list found
TrimFound(ii, seqlist, found) ==
  IF found.status # "ok" THEN [status |-> found.status, mask |-> <<>>]
  ELSE ExtentMask(ii, get_extent(seqlist[found.ix].seq))

\* lines 137-145: the range criterion, from seqrange or else from trim_to
RangeStage(a, seqlist) ==
  IF a.seqrange # None
    THEN [status |-> "ok",
          mask |-> [i \in 1..Len(seqlist[1].seq) |->
                      a.seqrange[1][1] <= i /\ i <= a.seqrange[1][2]]]
  ELSE IF a.trim_to # None /\ a.trim_to[1] # <<>>
    THEN TrimFound(1..Len(seqlist[1].seq), seqlist,
                   get_seq_from_list(a.trim_to[1], seqlist))
  ELSE [status |-> "ok", mask |-> [i \in 1..Len(seqlist[1].seq) |-> TRUE]]

\* zip(mask, mask1) joined by `and`
AndMasks(mask, mask1) ==
  [i \in 1..Min(Len(mask), Len(mask1)) |-> mask[i] /\ mask1[i]]

\* lines 147-149
GapStage(a, nseqs, tabulated, mask) ==
  IF a.exclude_gapcols
    THEN AndMasks(mask,
           [i \in 1..Len(tabulated) |->
              (IF Gap \in DOMAIN tabulated[i] THEN tabulated[i][Gap] ELSE 0)
                # nseqs])
    ELSE mask

\* lines 151-154
InvariantStage(a, tabulated, mask) ==
  IF a.exclude_invariant
    THEN AndMasks(mask,
           [i \in 1..Len(tabulated) |->
              count_subs(tabulated[i], a.countGaps, Gap) >= a.min_subs])
    ELSE mask

\* lines 156-165: the ruler is masked, the records are masked under three
\* of the options, and all is returned
MaskAndReturn(a, consensus_str, seqlist, numstrs, mask) ==
  [status |-> "ok",
   seqlist |-> [r \in 1..Len(seqlist) |->
                  IF a.seqrange # None \/ a.exclude_invariant \/ a.exclude_gapcols
                    THEN [seqlist[r] EXCEPT !.seq = apply_mask(seqlist[r].seq, mask)]
                    ELSE seqlist[r]],
   vnumstrs |-> [n \in 1..Len(numstrs) |-> apply_mask(numstrs[n], mask)],
   mask |-> mask]

\* lines 137-165, the range criterion computed
ReformatRanged(a, nseqs, tabulated, consensus_str, seqlist, ranged) ==
  IF ranged.status # "ok" THEN [status |-> ranged.status]
  ELSE MaskAndReturn(a, consensus_str, seqlist,
                     get_vnumbers(consensus_str, TRUE, TRUE),
                     InvariantStage(a, tabulated,
                                    GapStage(a, nseqs, tabulated, ranged.mask)))

\* lines 137-165, the records compared
ReformatCompared(a, nseqs, tabulated, consensus_str, compared) ==
  IF compared.status # "ok" THEN [status |-> compared.status]
  ELSE ReformatRanged(a, nseqs, tabulated, consensus_str, compared.seqlist,
                      RangeStage(a, compared.seqlist))

\* lines 113-118: the consensus record put first or last
AddConsensus(a, seqlist, consensus_str) ==
  IF ~a.add_consensus THEN seqlist
  ELSE IF a.reference_top THEN <<Seqobj(ConsensusName, consensus_str)>> \o seqlist
  ELSE Append(seqlist, Seqobj(ConsensusName, consensus_str))

\* lines 113-165, the consensus called
ReformatWithConsensus(a, seqlist, tabulated, consensus_str) ==
  ReformatCompared(a, Len(seqlist), tabulated, consensus_str,
                   CompareStage(a, AddConsensus(a, seqlist, consensus_str),
                                consensus_str))

\* lines 109-110
ConsensusStr(a, tabulated) ==
  UpperStr([i \in 1..Len(tabulated) |->
              consensus(tabulated[i], a.countGaps, DefaultPlu, Gap, ErrorChar)])

\* lines 107-165, the records copied
ReformatSeqlist(a, seqlist, tabulated) ==
  ReformatWithConsensus(a, seqlist, tabulated, ConsensusStr(a, tabulated))

\* line 103
CopySeqs(seqs) == [r \in 1..Len(seqs) |-> Seqobj(seqs[r].name, seqs[r].seq)]

\* reformat(seqs, ...): (seqlist, vnumstrs, mask) or the exception raised
reformat(a) == ReformatSeqlist(a, CopySeqs(a.seqs), tabulate(CopySeqs(a.seqs)))

Reformat ==
  /\ pc = "ready" /\ args.fn = "reformat"
  /\ ret' = reformat(args)
  /\ pc' = "done"
  /\ UNCHANGED <<args, out, start, first, counter>>

NextReformat == Reformat

(***************************************************************************)
(* Calls of reformat.                                                      *)
(***************************************************************************)
MaxSeqs == 2
MaxCols == 3
MaskSeqs == 3
MaskCols == 2
MaxMinSubs == 2
MaxRulerLen == 10

AlignChars == {"A", "G", Gap}

\* record r of an alignment whose records bear distinct names: s1, s2, ...
NameOf(r) == <<"s">> \o Dec(r)

RefNames == {<<"a">>, <<"b">>}

\* alignments of R records of N columns, the names drawn from `names`
Alignments(R, N, names) ==
  [1..R -> [name : names, seq : [1..N -> AlignChars]]]

\* the same, record r bearing the name NameOf(r)
NamedAlignments(R, N, chars) ==
  {[r \in 1..R |-> [name |-> NameOf(r), seq |-> rows[r]]] :
     rows \in [1..R -> [1..N -> chars]]}

\* reference selection and trimming: names that may coincide, the consensus
\* added (`adds`) at either end or left out, selectors by index and by name
RefCalls(R, N, adds) ==
  [fn : {"reformat"},
   seqs : Alignments(R, N, RefNames),
   add_consensus : adds,
   reference_top : BOOLEAN,
   compare : {TRUE},
   compare_to : {None, Some(<<"1">>), Some(<<"2">>), Some(<<"b">>)},
   exclude_gapcols : {FALSE},
   exclude_invariant : {FALSE},
   min_subs : {1},
   simchar : {<<".">>},
   countGaps : {FALSE},
   seqrange : {None},
   trim_to : {None, Some(<<"1">>), Some(<<"2">>)}]
    \cup
  [fn : {"reformat"},
   seqs : Alignments(R, N, RefNames),
   add_consensus : adds,
   reference_top : BOOLEAN,
   compare : {FALSE},
   compare_to : {None},
   exclude_gapcols : BOOLEAN,
   exclude_invariant : {FALSE},
   min_subs : {1},
   simchar : {<<".">>},
   countGaps : {FALSE},
   seqrange : {None},
   trim_to : {None, Some(<<"1">>), Some(<<"2">>)}]

\* column masking: every combination of the criteria
MaskCalls(R, N) ==
  [fn : {"reformat"},
   seqs : NamedAlignments(R, N, AlignChars),
   add_consensus : {TRUE},
   reference_top : {FALSE},
   compare : BOOLEAN,
   compare_to : {None},
   exclude_gapcols : BOOLEAN,
   exclude_invariant : {FALSE},
   min_subs : {1},
   simchar : {<<".">>},
   countGaps : BOOLEAN,
   seqrange : {None} \cup {Some(<<lo, hi>>) : lo \in {1, 2}, hi \in {1, N}},
   trim_to : {None, Some(<<"1">>)}]
    \cup
  [fn : {"reformat"},
   seqs : NamedAlignments(R, N, AlignChars),
   add_consensus : {TRUE},
   reference_top : {FALSE},
   compare : BOOLEAN,
   compare_to : {None},
   exclude_gapcols : BOOLEAN,
   exclude_invariant : {TRUE},
   min_subs : 1..MaxMinSubs,
   simchar : {<<".">>},
   countGaps : BOOLEAN,
   seqrange : {None} \cup {Some(<<lo, hi>>) : lo \in {1, 2}, hi \in {1, N}},
   trim_to : {None, Some(<<"1">>)}]

\* the numbering ruler: one record of up to MaxRulerLen columns, whose gap
\* columns the mask drops
RulerCalls(N) ==
  [fn : {"reformat"},
   seqs : NamedAlignments(1, N, {"A", Gap}),
   add_consensus : {TRUE},
   reference_top : {FALSE},
   compare : {FALSE},
   compare_to : {None},
   exclude_gapcols : BOOLEAN,
   exclude_invariant : {FALSE},
   min_subs : {1},
   simchar : {<<".">>},
   countGaps : {FALSE},
   seqrange : {None, Some(<<2, N>>)},
   trim_to : {None}]

InitCall(calls) ==
  /\ pc = "ready"
  /\ args \in calls
  /\ ret = "none"
  /\ out = <<>> /\ start = 0 /\ first = 0 /\ counter = 0

InitReformat ==
  \E R \in 1..MaxSeqs, N \in 1..MaxCols : InitCall(RefCalls(R, N, BOOLEAN))
InitReference ==
  \E R \in 1..MaxSeqs, N \in 1..MaxCols : InitCall(RefCalls(R, N, {TRUE}))
InitMask == \E R \in 1..MaskSeqs, N \in 1..MaskCols : InitCall(MaskCalls(R, N))
InitRuler == \E N \in 1..MaxRulerLen : InitCall(RulerCalls(N))

SpecReformat == InitReformat /\ [][NextReformat]_vars
\* calls that add the consensus record to the display
SpecReference == InitReference /\ [][NextReformat]_vars
SpecMask == InitMask /\ [][NextReformat]_vars
SpecRuler == InitRuler /\ [][NextReformat]_vars

(***************************************************************************)
(* Properties of reformat.                                                 *)
(***************************************************************************)
Returned == pc = "done" /\ args.fn = "reformat" /\ ret.status = "ok"

\* the number of columns of the input alignment
NumColumns == Len(args.seqs[1].seq)

TrueCount(mask) == Cardinality({i \in 1..Len(mask) : mask[i]})

\* the original column of output place p: the p-th true entry of mask
KeptColumn(mask, p) ==
  CHOOSE i \in 1..Len(mask) :
     mask[i] /\ Cardinality({j \in 1..i : mask[j]}) = p

\* C1: every returned record and every ruler string is as long as the
\* number of true entries of the returned mask.
MaskedLengthsAgree ==
  Returned =>
    /\ \A r \in 1..Len(ret.seqlist) :
          Len(ret.seqlist[r].seq) = TrueCount(ret.mask)
    /\ \A n \in 1..Len(ret.vnumstrs) :
          Len(ret.vnumstrs[n]) = TrueCount(ret.mask)

\* the consensus of the input alignment, and the list reformat works on
\* before it compares: the input records and the consensus where it is put
InputConsensus == ConsensusStr(args, tabulate(args.seqs))

OriginalList ==
  LET inputs == [r \in 1..Len(args.seqs) |->
                   [name |-> args.seqs[r].name, seq |-> args.seqs[r].seq]]
      cons == [name |-> ConsensusName, seq |-> InputConsensus]
  IN IF ~args.add_consensus THEN inputs
     ELSE IF args.reference_top THEN <<cons>> \o inputs
     ELSE Append(inputs, cons)

\* not every input record has the gap character at column i
GapCriterion(i) == \E r \in 1..Len(args.seqs) : args.seqs[r].seq[i] # Gap

\* the substitution count of column i: 0 if at most one distinct character
\* remains once gaps are dropped (unless countGaps), and else the number of
\* records counted less those holding the most frequent character
SubstitutionCount(i) ==
  LET counted == {r \in 1..Len(args.seqs) :
                    args.countGaps \/ args.seqs[r].seq[i] # Gap}
      chars == {args.seqs[r].seq[i] : r \in counted}
      freq(c) == Cardinality({r \in counted : args.seqs[r].seq[i] = c})
  IN IF Cardinality(chars) <= 1 THEN 0
     ELSE Cardinality(counted) - SetMax({freq(c) : c \in chars})

InvariantCriterion(i) == SubstitutionCount(i) >= args.min_subs

RangeCriterion(i) == args.seqrange[1][1] <= i /\ i <= args.seqrange[1][2]

\* the criteria that are enabled, at original column i
EnabledCriteria(i) ==
  /\ args.seqrange # None => RangeCriterion(i)
  /\ args.exclude_gapcols => GapCriterion(i)
  /\ args.exclude_invariant => InvariantCriterion(i)

TrimInEffect == args.seqrange = None /\ args.trim_to # None

\* C6: with trim_to and no seqrange, the mask keeps, among the columns the
\* other criteria keep, exactly those within the extent of the selected
\* record's original sequence: from its first non-gap character to its
\* last, whether compare is enabled or not.
TrimMaskIsOriginalExtent ==
  (Returned /\ TrimInEffect) =>
    LET found == get_seq_from_list(args.trim_to[1], OriginalList)
        original == OriginalList[found.ix].seq
        nongap == {i \in 1..Len(original) : original[i] # Gap}
    IN (found.status = "ok" /\ nongap # {}) =>
         \A i \in 1..NumColumns :
            ret.mask[i] <=>
              /\ \E j \in nongap : j <= i
              /\ \E j \in nongap : i <= j
              /\ EnabledCriteria(i)

RulerValue(vnumstrs, p) ==
  LET D == Len(vnumstrs)
      digit(n) == CHOOSE d \in 0..9 : Digits[d + 1] = vnumstrs[n][p]
      RECURSIVE upto(_)
      upto(n) == IF n = 0 THEN 0 ELSE 10 * upto(n - 1) + digit(n)
  IN upto(D)

\* C8: the ruler holds as many strings as N+1 has decimal digits, and the
\* digits read down the ruler at any output place give the original 1-based
\* position of the column kept there: 1..N in order under an all-true mask.
RulerReadsOriginalPositions ==
  Returned =>
    /\ \E D \in 1..(NumColumns + 1) :
          /\ Len(ret.vnumstrs) = D
          /\ NumColumns + 1 < 10 ^ D
          /\ D > 1 => 10 ^ (D - 1) <= NumColumns + 1
    /\ \A n \in 1..Len(ret.vnumstrs) :
          /\ Len(ret.vnumstrs[n]) = TrueCount(ret.mask)
          /\ \A p \in 1..Len(ret.vnumstrs[n]) : IsDigit(ret.vnumstrs[n][p])
    /\ \A p \in 1..TrueCount(ret.mask) :
          RulerValue(ret.vnumstrs, p) = KeptColumn(ret.mask, p)
    /\ (\A i \in 1..Len(ret.mask) : ret.mask[i]) =>
          \A p \in 1..NumColumns : RulerValue(ret.vnumstrs, p) = p

\* ten columns, the second all gaps and dropped: the ruler has two strings
\* and reads 1, 3, 4, ..., 10
RulerOfTenColumns ==
  /\ Returned
  /\ NumColumns = 10
  /\ ~ret.mask[2]
  /\ TrueCount(ret.mask) = 9
  /\ ret.vnumstrs = << <<"0", "0", "0", "0", "0", "0", "0", "0", "1">>,
                       <<"1", "3", "4", "5", "6", "7", "8", "9", "0">> >>

\* the place in the returned list of the record compare_to selects: input
\* record k for the index k, the consensus record for None
SelectedPlace ==
  LET shift == IF args.add_consensus /\ args.reference_top THEN 1 ELSE 0
      k == IntParse(args.compare_to[1])
  IN IF args.compare_to = None
       THEN IF args.reference_top THEN 1 ELSE Len(ret.seqlist)
     ELSE k.val + shift

\* C10: with compare enabled exactly one returned record is flagged as the
\* reference, the one compare_to selects; it alone bears the marker prefix
\* and keeps its characters, and every other record is diffed against it.
ExactlyOneReference ==
  (Returned /\ args.compare) =>
    LET flagged == {r \in 1..Len(ret.seqlist) : ret.seqlist[r].reference}
        byIndex == args.compare_to = None \/ IntParse(args.compare_to[1]).ok
    IN /\ Cardinality(flagged) = 1
       /\ byIndex => flagged = {SelectedPlace}
       /\ \A r \in 1..Len(ret.seqlist) :
            IF r \in flagged
              THEN /\ ret.seqlist[r].name = RefPrefix \o OriginalList[r].name
                   /\ ret.seqlist[r].seq = OriginalList[r].seq
              ELSE /\ ret.seqlist[r].name = OriginalList[r].name
                   /\ \A f \in flagged :
                        ret.seqlist[r].seq =
                          seqdiff(OriginalList[r].seq, OriginalList[f].seq,
                                  args.simchar).str

(***************************************************************************)
(* pagify                                                                  *)
(***************************************************************************)
MaxRows == 3
MaxWidth == 4

Spaces(n) == [i \in 1..n |-> " "]

\* name_width: the longest name, kept between name_min and name_max
NameWidth(a) ==
  LET longest_name == SetMax({Len(a.seqlist[r].name) : r \in 1..Len(a.seqlist)})
  IN Max(a.name_min, Min(longest_name, a.name_max))

\* num_width = floor(log10(seqcount)) + 1: the digits of seqcount
NumWidth(a) == Len(Dec(Len(a.seqlist)))

\* fstr % {count, name, seqstr}: the count (with seqnums) right-justified
\* in num_width, the name right-justified in name_width, the characters
\* left-justified in ncol
FormatLine(a, count, name, seqstr) ==
  (IF a.seqnums THEN RJust(count, NumWidth(a), " ") \o <<" ">> ELSE <<>>)
    \o RJust(name, NameWidth(a), " ") \o <<" ">> \o LJust(seqstr, a.ncol)

StatusLine_shown_at_nrow(first_, last, seqcount, nrow) ==
  IF seqcount >= nrow
    THEN << <<"s", "e", "q", "u", "e", "n", "c", "e", "s", " ">>
              \o Dec(first_ + 1) \o <<" ", "t", "o", " ">> \o Dec(last)
              \o <<" ", "o", "f", " ">> \o Dec(seqcount) >>
    ELSE <<>>

\* lines 205-210: the status line of a block, when there is one
StatusLine(first_, last, seqcount, nrow) ==
  IF seqcount > nrow
    THEN << <<"s", "e", "q", "u", "e", "n", "c", "e", "s", " ">>
              \o Dec(first_ + 1) \o <<" ", "t", "o", " ">> \o Dec(last)
              \o <<" ", "o", "f", " ">> \o Dec(seqcount) >>
    ELSE <<>>

\* lines 214-224: the ruler lines of a block, or the line labelling its
\* first and last column
NumberLines(a, start_, stop) ==
  IF a.all_numstrs
    THEN [n \in 1..Len(a.vnumstrs) |->
            FormatLine(a, <<>>, <<"#">>, Slice(a.vnumstrs[n], start_, stop))]
    ELSE LET half_ncol == (stop - start_) \div 2
         IN << Spaces(NameWidth(a)) \o <<" ">>
                 \o LJust(Dec(start_ + 1), half_ncol)
                 \o RJust(Dec(stop), half_ncol, " ") \o <<"\n">> >>

\* lines 226-230: one line for each record of the row block
RecordLines(a, start_, stop, first_, last, counter_) ==
  [k \in 1..(last - first_) |->
     FormatLine(a, Dec(counter_ + k - 1),
                Slice(a.seqlist[first_ + k].name, 0, NameWidth(a)),
                Slice(a.seqlist[first_ + k].seq, start_, stop))]

\* lines 202-230: the block of columns start.. and records first..
PageBlock(a, start_, first_, counter_) ==
  LET seqcount == Len(a.seqlist)
      colstop == Len(a.seqlist[1].seq)
      stop == Min(start_ + a.ncol, colstop)
      last == Min(first_ + a.nrow, seqcount)
  IN StatusLine(first_, last, seqcount, a.nrow)
       \o NumberLines(a, start_, stop)
       \o RecordLines(a, start_, stop, first_, last, counter_)

PageLetters == <<"A", "C", "G", "T">>
PageLettersBack == <<"T", Gap, "G", "A">>
PageNameChars == <<"s", "e", "q", "n", "a", "m", "e">>

PageRows(C) ==
  {[i \in 1..C |-> PageLetters[((i - 1) % 4) + 1]],
   [i \in 1..C |-> PageLettersBack[((i - 1) % 4) + 1]]}

\* R records of C columns, record r bearing a name of r characters, under
\* the ruler get_vnumbers gives C columns
PagifyCalls(R, C) ==
  {[fn |-> "pagify",
    seqlist |-> [r \in 1..R |->
                   [name |-> SubSeq(PageNameChars, 1, Min(r, Len(PageNameChars))),
                    seq |-> rows[r]]],
    vnumstrs |-> get_vnumbers(rows[1], TRUE, TRUE),
    name_min |-> widths[1], name_max |-> widths[2],
    nrow |-> nrow, ncol |-> ncol,
    all_numstrs |-> flags[1], seqnums |-> flags[2]] :
     rows \in [1..R -> PageRows(C)],
     widths \in {<<1, 2>>, <<3, 4>>},
     nrow \in 1..MaxRows, ncol \in 1..MaxWidth,
     flags \in BOOLEAN \X BOOLEAN}

InitPagify ==
  \E R \in 1..MaxRows, C \in 1..MaxWidth : InitCall(PagifyCalls(R, C))

\* lines 181-194
PagifyBegin ==
  /\ pc = "ready" /\ args.fn = "pagify"
  /\ out' = <<>>
  /\ start' = 0
  /\ pc' = "columns"
  /\ UNCHANGED <<args, ret, first, counter>>

\* lines 196-200: the next block of columns is entered
PagifyColumns ==
  /\ pc = "columns"
  /\ start < Len(args.seqlist[1].seq)
  /\ counter' = 1
  /\ first' = 0
  /\ pc' = "rows"
  /\ UNCHANGED <<args, ret, out, start>>

\* lines 201-230: one block of records is appended to out
PagifyRows ==
  /\ pc = "rows"
  /\ first < Len(args.seqlist)
  /\ out' = Append(out, PageBlock(args, start, first, counter))
  /\ counter' = counter + (Min(first + args.nrow, Len(args.seqlist)) - first)
  /\ first' = first + args.nrow
  /\ UNCHANGED <<pc, args, ret, start>>

\* the loop over the records ends: on to the next block of columns
PagifyRowsDone ==
  /\ pc = "rows"
  /\ first >= Len(args.seqlist)
  /\ start' = start + args.ncol
  /\ pc' = "columns"
  /\ UNCHANGED <<args, ret, out, first, counter>>

\* line 232
PagifyReturn ==
  /\ pc = "columns"
  /\ start >= Len(args.seqlist[1].seq)
  /\ ret' = out
  /\ pc' = "done"
  /\ UNCHANGED <<args, out, start, first, counter>>

NextPagify ==
  \/ PagifyBegin
  \/ PagifyColumns
  \/ PagifyRows
  \/ PagifyRowsDone
  \/ PagifyReturn

SpecPagify == InitPagify /\ [][NextPagify]_vars

CeilDiv(n, d) == (n + d - 1) \div d

\* C7: pagify emits ceil(C/ncol) * ceil(R/nrow) blocks, all row blocks of
\* column block 0 first; the block of column block c and row block r ends
\* with one line for each record r*nrow .. min((r+1)*nrow, R)-1 in order,
\* each line ending with the record's columns c*ncol .. min((c+1)*ncol, C)-1
\* in a field of ncol; and a block opens with the status line
\* "sequences <first+1> to <last> of <R>" exactly when R > nrow.
PagifyBlocks ==
  (pc = "done" /\ args.fn = "pagify") =>
    LET R == Len(args.seqlist)
        C == Len(args.seqlist[1].seq)
        rowBlocks == CeilDiv(R, args.nrow)
        colBlocks == CeilDiv(C, args.ncol)
        rulerLines == IF args.all_numstrs THEN Len(args.vnumstrs) ELSE 1
    IN /\ Len(ret) = colBlocks * rowBlocks
       /\ \A c \in 0..(colBlocks - 1), r \in 0..(rowBlocks - 1) :
            LET block == ret[c * rowBlocks + r + 1]
                firstRec == r * args.nrow
                lastRec == Min((r + 1) * args.nrow, R)
                firstCol == c * args.ncol
                lastCol == Min((c + 1) * args.ncol, C)
                status == IF R > args.nrow THEN 1 ELSE 0
                text == <<"s", "e", "q", "u", "e", "n", "c", "e", "s", " ">>
                          \o Dec(firstRec + 1) \o <<" ", "t", "o", " ">>
                          \o Dec(lastRec) \o <<" ", "o", "f", " ">> \o Dec(R)
            IN /\ Len(block) = status + rulerLines + (lastRec - firstRec)
               /\ R > args.nrow <=> block[1] = text
               /\ \A k \in 1..(lastRec - firstRec) :
                    LET line == block[status + rulerLines + k]
                        field == SubSeq(line, Len(line) - args.ncol + 1, Len(line))
                        cells == SubSeq(args.seqlist[firstRec + k].seq,
                                        firstCol + 1, lastCol)
                    IN /\ Len(line) >= args.ncol
                       /\ SubSeq(field, 1, lastCol - firstCol) = cells
                       /\ \A j \in (lastCol - firstCol + 1)..args.ncol : field[j] = " "

\* three records by two and four columns by three: four blocks, the second
\* opening with "sequences 3 to 3 of 3" and showing the last record alone
PagifyFourBlocks ==
  /\ pc = "done" /\ args.fn = "pagify"
  /\ Len(args.seqlist) = 3 /\ args.nrow = 2
  /\ Len(args.seqlist[1].seq) = 4 /\ args.ncol = 3
  /\ Len(ret) = 4
  /\ ret[2][1] = <<"s", "e", "q", "u", "e", "n", "c", "e", "s", " ", "3", " ",
                   "t", "o", " ", "3", " ", "o", "f", " ", "3">>
  /\ Len(ret[4]) = Len(ret[2])

====
